---- MODULE Spec2Model ----
(***************************************************************************)
(* Gateway lifecycle and service registration of                          *)
(* dstack/_internal/server/services/gateways/__init__.py.                 *)
(*                                                                         *)
(* Specifications sharing the module:                                      *)
(*   Spec          two concurrent delete_gateways calls and a              *)
(*                 configure_gateway call over one project's gateways, the *)
(*                 connection pool and the PROCESSING_GATEWAYS_IDS registry;*)
(*   SpecDelete    one delete_gateways call on its own;                    *)
(*   SpecConnect   one connect_to_gateway_with_retry call;                 *)
(*   SpecConfigure one configure_gateway call;                             *)
(*   SpecRegister  one register_service call;                              *)
(*   SpecService   a run's register_service, register_replica and          *)
(*                 unregister_* calls against the gateway daemon;          *)
(*   SpecCreate    one create_gateway call;                                *)
(*   SpecProject   concurrent create_gateway, set_default_gateway and      *)
(*                 delete_gateways calls on one project;                   *)
(*   SpecInit      init_gateways at server start;                          *)
(*   SpecPool      the pool's writers side by side: init_gateways,         *)
(*                 connect_to_gateway_with_retry and delete_gateways;      *)
(*   SpecRace      register_service next to one delete_gateways call;      *)
(*   SpecDomain    one set_gateway_wildcard_domain call.                   *)
(* asyncio is cooperative: an action is the code between two awaits.        *)
(***************************************************************************)
EXTENDS Integers, Sequences, FiniteSets, TLC

\* ---------------------------------------------------------------- bounds
NumGateways == 2
\* Runs (and jobs) the remote daemon can have registered.
NumRuns == 2
\* unregister_* / register_replica calls made for the run.
MaxServiceCalls == 2

\* ------------------------------------------------------ program constants
GATEWAY_CONNECT_ATTEMPTS == 30
GATEWAY_CONFIGURE_ATTEMPTS == 40

Gateways == 1..NumGateways
\* Two API requests in flight at once: the registry's exclusion is pairwise.
Callers == {"c1", "c2"}
None == 0
Runs == 1..NumRuns
\* run_model.id and job_model.id of the run and the job the calls are about.
TheRun == 1
TheJob == 1

VARIABLES
    gw,                         \* GatewayModel attributes by gateway id, written at creation
    rows,                       \* ids of the committed GatewayModel rows
    compute,                    \* committed GatewayComputeModel flags, by gateway id
    pool,                       \* gateway_connections_pool: the hosts with a connection
    pool0,                      \* the pool as it was when the run began (history)
    entries,                    \* per host: the Connection objects the pool stores
    closed,                     \* hosts whose latest Connection pool.remove has closed
    PROCESSING_GATEWAYS_IDS,    \* the Processing-ID registry
    call,                       \* per caller: the delete_gateways call in progress
    conf,                       \* the configure_gateway call
    conn,                       \* the connect_to_gateway_with_retry call
    reg,                        \* the register_service call and its run_model
    daemon,                     \* what the remote gateway daemon has registered
    daemon0,                    \* the daemon as it was when the run began (history)
    svc,                        \* the unregister_* / register_replica calls of the run
    default_gateway_id,         \* ProjectModel.default_gateway_id
    cr,                         \* per caller: the create_gateway / set_default_gateway call
    init,                       \* the init_gateways call
    wildcard_domain,            \* GatewayModel.wildcard_domain by gateway id
    dom                         \* the set_gateway_wildcard_domain call

vars ==
    <<gw, rows, compute, pool, pool0, entries, closed, PROCESSING_GATEWAYS_IDS, call,
      conf, conn, reg, daemon, daemon0, svc, default_gateway_id, cr, init,
      wildcard_domain, dom>>

lifecycleVars ==
    <<gw, rows, compute, pool, pool0, entries, closed, PROCESSING_GATEWAYS_IDS, call>>

svcVars == <<daemon, daemon0, svc>>

\* The variables of the operations other than delete_gateways, configure_gateway,
\* connect_to_gateway_with_retry and register_service.
projVars == <<default_gateway_id, cr>>

domVars == <<wildcard_domain, dom>>

otherVars == <<projVars, init, domVars>>

extVars == <<svcVars, otherVars>>

\* A gateway's compute is keyed by the gateway id and its host (ip_address) is
\* that id too: ip addresses are per instance.
Host(g) == g

HasCompute(g) == gw[g].gateway_compute

\* A GatewayModel row: name, backend type, whether it has a gateway_compute,
\* status and the stored configuration; NoRow for an id no row was given.
GatewayRow(name, backend, has_compute, status, configuration) ==
    [name |-> name, backend |-> backend, gateway_compute |-> has_compute,
     status |-> status, configuration |-> configuration]

\* GatewayModel.configuration: absent for rows older than the field, else the
\* default and public_ip of the GatewayConfiguration it serialises.
StoredConfiguration(default, public_ip) ==
    [present |-> TRUE, default |-> default, public_ip |-> public_ip]

NoConfiguration == [present |-> FALSE, default |-> FALSE, public_ip |-> FALSE]

NoRow == GatewayRow(None, "none", FALSE, "none", NoConfiguration)

\* The GatewayComputeModel of gateway g, when it has one: created active and
\* not deleted, at the instance's ip_address.
GatewayCompute(g, exists) ==
    [active |-> exists, deleted |-> FALSE,
     ip_address |-> IF exists THEN Host(g) ELSE None]

\* ------------------------------------------------------------ helpers
RECURSIVE SetToSeq(_)
SetToSeq(S) ==
    IF S = {} THEN <<>>
    ELSE LET m == CHOOSE x \in S : \A y \in S : x <= y
         IN <<m>> \o SetToSeq(S \ {m})

Range(s) == {s[i] : i \in 1..Len(s)}

\* ------------------------------------------------- collaborators (not in src/)
\* wait_to_lock(lock, ids, id): under the lock, insert id when it is absent and
\* return; when it is present, release the lock, sleep and retry. The retry is
\* a stuttering step: the caller proceeds only from a state where id is absent.
wait_to_lock_ready(ids, id) == id \notin ids

wait_to_lock(ids, id) == ids \cup {id}

\* gateway_connections_pool.remove(host): drop the entry, unknown hosts allowed.
pool_remove(p, host) == p \ {host}

\* gateway_connections_pool.add(host, key) when the handshake succeeds, or when
\* the host is already present (the existing connection is returned).
pool_add(p, host) == p \cup {host}

\* What gateway_connections_pool.add(host, key) does to the stored Connection
\* objects: one is constructed and stored when the host has none, and the one
\* there is is returned otherwise.
entries_add_always(e, host) == [e EXCEPT ![host] = @ + 1]

entries_add(e, host) == IF e[host] > 0 THEN e ELSE [e EXCEPT ![host] = 1]

\* What gateway_connections_pool.remove(host) does to them: the host's entry is
\* dropped, and its Connection (tunnel and client) is closed.
entries_remove(e, host) == [e EXCEPT ![host] = 0]

connection_close(c, p, host) == IF host \in p THEN c \cup {host} ELSE c

\* gateway_connections_pool.get(host): the connection or None.
pool_get(p, host) == IF host \in p THEN host ELSE None

\* The remote gateway daemon: the services it has an ingress entry for and the
\* replicas of the run's service. register_service creates or replaces the
\* entry; unregister_* answer GatewayError for what is not present and
\* register_replica for a service that is not present.
daemon_register_service(d, run) == [d EXCEPT !.services = @ \cup {run}]

daemon_unregister_service(d, run) == [d EXCEPT !.services = @ \ {run}]

daemon_register_replica(d, job) == [d EXCEPT !.replicas = @ \cup {job}]

daemon_unregister_replica(d, job) == [d EXCEPT !.replicas = @ \ {job}]

daemon_answer(d, op) ==
    CASE op = "unregister_service" ->
            IF TheRun \in d.services THEN "ok" ELSE "GatewayError"
      [] op = "unregister_replica" ->
            IF TheJob \in d.replicas THEN "ok" ELSE "GatewayError"
      [] OTHER ->
            IF TheRun \in d.services THEN "ok" ELSE "GatewayError"

daemon_apply(d, op) ==
    CASE op = "unregister_service" -> daemon_unregister_service(d, TheRun)
      [] op = "unregister_replica" -> daemon_unregister_replica(d, TheJob)
      [] OTHER -> daemon_register_replica(d, TheJob)

\* get_project_backend_with_model_by_type_or_error: the backend types the
\* project has a backend of; any other type is unknown to it.
ProjectBackends == {"aws", "kubernetes", "dstack"}

BACKENDS_WITH_PRIVATE_GATEWAY_SUPPORT == {"kubernetes"}

\* The unique constraint on (project_id, name): an insert of a name a committed
\* row of the project has is refused.
unique_name_violated(name) == \E g \in rows : gw[g].name = name

\* ------------------------------------------------------------ delete_gateways
IdleCall ==
    [pc |-> "idle", gateways |-> <<>>,
     task |-> [g \in Gateways |-> "none"], idx |-> 0,
     deleted |-> {}, tombstoned |-> {}]

\* A call left by an exception or a cancellation: its session is discarded and
\* nothing of it is read again; what it left in the registry and the pool stays.
LeftCall(how) == [IdleCall EXCEPT !.pc = how]

\* The selection loop without the test of line 207: managed-default gateways
\* are kept too.
SelectGatewaysAnyBackend(names) ==
    SetToSeq({g \in rows : gw[g].name \in names})

\* Lines 206-213: the rows the selection loop keeps, in the order of the query.
SelectGateways(names) ==
    SetToSeq({g \in rows : gw[g].backend # "dstack" /\ gw[g].name \in names})

\* The loop without its `continue`: every result counts as a termination.
NextTerminatedIgnoringErrors(c, i) ==
    IF i <= Len(c.gateways) THEN i ELSE Len(c.gateways) + 1

\* Lines 216-218: the first index j >= i of a gateway whose termination returned
\* no error, Len + 1 when there is none (`continue` on an error does not await).
NextTerminated(c, i) ==
    LET ok == {j \in i..Len(c.gateways) : c.task[c.gateways[j]] = "ok"}
    IN IF ok = {} THEN Len(c.gateways) + 1
       ELSE CHOOSE j \in ok : \A k \in ok : j <= k

\* The release done only for the gateways whose termination succeeded.
ReleaseIdsOfTerminated(ids, c) ==
    ids \ {g \in Range(c.gateways) : c.task[g] = "ok"}

\* Lines 225-226: for gateway in gateways: PROCESSING_GATEWAYS_IDS.remove(gateway.id).
\* Every listed id is in the set here: its task inserted it and only this loop
\* removes it, so set.remove never raises KeyError.
ReleaseIds(ids, c) == ids \ Range(c.gateways)

\* The loop of lines 216-224 resumed at index i: stop at the next terminated
\* gateway (its pool.remove awaits), or leave the loop, release the ids and
\* await the commit.
ResumeLoop(p, c, i) ==
    LET j == NextTerminated(c, i)
    IN IF j <= Len(c.gateways)
       THEN /\ call' = [call EXCEPT ![p] = [c EXCEPT !.pc = "loop", !.idx = j]]
            /\ UNCHANGED PROCESSING_GATEWAYS_IDS
       ELSE /\ call' = [call EXCEPT ![p] = [c EXCEPT !.pc = "commit", !.idx = j]]
            /\ PROCESSING_GATEWAYS_IDS' = ReleaseIds(PROCESSING_GATEWAYS_IDS, c)

\* Lines 204-215: select the rows, build one _terminate_gateway task per row
\* and start the gather.
delete_gateways(p, names) ==
    /\ call[p].pc = "idle"
    /\ call' = [call EXCEPT ![p] =
                  [IdleCall EXCEPT !.pc = "gather",
                                   !.gateways = SelectGateways(names),
                                   !.task = [g \in Gateways |->
                                       IF g \in Range(SelectGateways(names))
                                       THEN "waiting" ELSE "none"]]]
    /\ UNCHANGED <<gw, rows, compute, pool, pool0, entries, closed, PROCESSING_GATEWAYS_IDS>>
    /\ UNCHANGED <<conf, conn, reg, extVars>>

\* The task inserting its id without waiting for the id to be absent.
terminate_gateway_without_wait(p, g) ==
    /\ call[p].pc = "gather"
    /\ call[p].task[g] = "waiting"
    /\ PROCESSING_GATEWAYS_IDS' = PROCESSING_GATEWAYS_IDS \cup {g}
    /\ call' = [call EXCEPT ![p].task[g] =
                  IF HasCompute(g) THEN "locked" ELSE "ok"]
    /\ UNCHANGED <<gw, rows, compute, pool, pool0, entries, closed>>
    /\ UNCHANGED <<conf, conn, reg, extVars>>

\* Line 231: the task enters the registry; a gateway without a compute has
\* nothing to terminate and the task returns at once.
terminate_gateway_lock(p, g) ==
    /\ call[p].pc = "gather"
    /\ call[p].task[g] = "waiting"
    /\ wait_to_lock_ready(PROCESSING_GATEWAYS_IDS, g)
    /\ PROCESSING_GATEWAYS_IDS' = wait_to_lock(PROCESSING_GATEWAYS_IDS, g)
    /\ call' = [call EXCEPT ![p].task[g] =
                  IF HasCompute(g) THEN "locked" ELSE "ok"]
    /\ UNCHANGED <<gw, rows, compute, pool, pool0, entries, closed>>
    /\ UNCHANGED <<conf, conn, reg, extVars>>

\* Lines 232-238: the backend's terminate_instance returns or raises.
terminate_instance(p, g, raises) ==
    /\ call[p].pc = "gather"
    /\ call[p].task[g] = "locked"
    /\ call' = [call EXCEPT ![p].task[g] = IF raises THEN "err" ELSE "ok"]
    /\ UNCHANGED <<gw, rows, compute, pool, pool0, entries, closed, PROCESSING_GATEWAYS_IDS>>
    /\ UNCHANGED <<conf, conn, reg, extVars>>

\* Line 215 returns once every task has a result; the loop starts.
gather_returns(p) ==
    /\ call[p].pc = "gather"
    /\ \A g \in Range(call[p].gateways) : call[p].task[g] \in {"ok", "err"}
    /\ ResumeLoop(p, call[p], 1)
    /\ UNCHANGED <<gw, rows, compute, pool, pool0, entries, closed>>
    /\ UNCHANGED <<conf, conn, reg, extVars>>

\* Lines 219-224 for the gateway at idx: drop the connection, tombstone the
\* compute and delete the row in the session; then the loop goes on. With
\* `raises` the await of session.delete raises and the call is left. The
\* awaits of pool.remove and session.delete are one step: between them only
\* the objects of the call's own session change.
remove_terminated(p, raises) ==
    /\ call[p].pc = "loop"
    /\ LET c == call[p]
           g == c.gateways[c.idx]
           c1 == [c EXCEPT !.tombstoned = IF HasCompute(g) THEN @ \cup {g} ELSE @]
       IN /\ pool' = IF HasCompute(g) THEN pool_remove(pool, Host(g)) ELSE pool
          /\ entries' = IF HasCompute(g) THEN entries_remove(entries, Host(g))
                        ELSE entries
          /\ closed' = IF HasCompute(g) THEN connection_close(closed, pool, Host(g))
                       ELSE closed
          /\ IF raises
             THEN /\ call' = [call EXCEPT ![p] = LeftCall("raised")]
                  /\ UNCHANGED PROCESSING_GATEWAYS_IDS
             ELSE ResumeLoop(p, [c1 EXCEPT !.deleted = @ \cup {g}], c.idx + 1)
    /\ UNCHANGED <<gw, rows, compute, pool0>>
    /\ UNCHANGED <<conf, conn, reg, extVars>>

\* The commit with the tombstone of line 222 alone: deleted, still active.
commit_keeping_active(p, raises) ==
    /\ call[p].pc = "commit"
    /\ IF raises
       THEN /\ call' = [call EXCEPT ![p] = LeftCall("raised")]
            /\ UNCHANGED <<rows, compute>>
       ELSE /\ call' = [call EXCEPT ![p].pc = "done"]
            /\ rows' = rows \ call[p].deleted
            /\ compute' = [g \in Gateways |->
                             IF g \in call[p].tombstoned
                             THEN [compute[g] EXCEPT !.deleted = TRUE]
                             ELSE compute[g]]
    /\ UNCHANGED <<gw, pool, pool0, entries, closed, PROCESSING_GATEWAYS_IDS>>
    /\ UNCHANGED <<conf, conn, reg, extVars>>

\* Line 227: the commit writes the session's changes, or raises.
commit(p, raises) ==
    /\ call[p].pc = "commit"
    /\ IF raises
       THEN /\ call' = [call EXCEPT ![p] = LeftCall("raised")]
            /\ UNCHANGED <<rows, compute>>
       ELSE /\ call' = [call EXCEPT ![p].pc = "done"]
            /\ rows' = rows \ call[p].deleted
            /\ compute' = [g \in Gateways |->
                             IF g \in call[p].tombstoned
                             THEN [compute[g] EXCEPT !.active = FALSE,
                                                     !.deleted = TRUE]
                             ELSE compute[g]]
    /\ UNCHANGED <<gw, pool, pool0, entries, closed, PROCESSING_GATEWAYS_IDS>>
    /\ UNCHANGED <<conf, conn, reg, extVars>>

\* The caller is cancelled while the call waits at one of its awaits: the
\* CancelledError leaves delete_gateways (and its tasks) where it stands.
cancel(p) ==
    /\ call[p].pc \in {"gather", "loop", "commit"}
    /\ call' = [call EXCEPT ![p] = LeftCall("cancelled")]
    /\ UNCHANGED <<gw, rows, compute, pool, pool0, entries, closed, PROCESSING_GATEWAYS_IDS>>
    /\ UNCHANGED <<conf, conn, reg, extVars>>

\* ---------------------------------------------------------- configure_gateway
IdleConf ==
    [pc |-> "idle", host |-> None, attempt |-> 0, calls |-> 0, sleeps |-> 0,
     last |-> "none", error |-> "none"]

\* The loop running over all the attempts, with the else branch after them.
ConfigureCaughtAttemptsAll == GATEWAY_CONFIGURE_ATTEMPTS

\* Line 534: range(GATEWAY_CONFIGURE_ATTEMPTS - 1), the attempts whose
\* RequestError is caught; the attempt of the else branch follows them.
ConfigureCaughtAttempts == GATEWAY_CONFIGURE_ATTEMPTS - 1

\* Lines 526-534: configure_gateway(connection) on a connection of the pool.
configure_gateway(h) ==
    /\ conf.pc = "idle"
    /\ h \in pool
    /\ conf' = [IdleConf EXCEPT !.pc = "attempt", !.host = h]
    /\ UNCHANGED <<lifecycleVars, conn, reg, extVars>>

\* The call of the else branch guarded like the calls of the loop.
submit_gateway_config_all_caught(outcome) ==
    /\ conf.pc = "attempt"
    /\ LET c == [conf EXCEPT !.calls = @ + 1, !.last = outcome]
       IN conf' =
            CASE outcome = "ok" -> [c EXCEPT !.pc = "done"]
              [] outcome = "RequestError" /\ conf.attempt < ConfigureCaughtAttempts ->
                    [c EXCEPT !.pc = "sleep", !.sleeps = @ + 1]
              [] outcome = "RequestError" -> [c EXCEPT !.pc = "done"]
              [] OTHER -> [c EXCEPT !.pc = "raised", !.error = outcome]
    /\ UNCHANGED <<lifecycleVars, conn, reg, extVars>>

\* Lines 535-550: one submit_gateway_config call returns or raises. Inside the
\* loop a RequestError is caught and followed by a sleep; the call of the else
\* branch is not guarded; an error of another kind is caught nowhere.
submit_gateway_config(outcome) ==
    /\ conf.pc = "attempt"
    /\ LET c == [conf EXCEPT !.calls = @ + 1, !.last = outcome]
       IN conf' =
            CASE outcome = "ok" -> [c EXCEPT !.pc = "done"]
              [] outcome = "RequestError" /\ conf.attempt < ConfigureCaughtAttempts ->
                    [c EXCEPT !.pc = "sleep", !.sleeps = @ + 1]
              [] OTHER -> [c EXCEPT !.pc = "raised", !.error = outcome]
    /\ UNCHANGED <<lifecycleVars, conn, reg, extVars>>

\* Line 547: asyncio.sleep(GATEWAY_CONFIGURE_DELAY) returns; the loop goes on.
configure_sleep_returns ==
    /\ conf.pc = "sleep"
    /\ conf' = [conf EXCEPT !.pc = "attempt", !.attempt = @ + 1]
    /\ UNCHANGED <<lifecycleVars, conn, reg, extVars>>

\* ---------------------------------------------- connect_to_gateway_with_retry
IdleConn ==
    [pc |-> "idle", host |-> None, attempt |-> 0, adds |-> 0, sleeps |-> 0,
     connection |-> None]

\* A sleep after every failed attempt, the last one too.
ConnectSleepAttemptsAll == GATEWAY_CONNECT_ATTEMPTS

\* Line 194: attempt < GATEWAY_CONNECT_ATTEMPTS - 1, the failures followed by a sleep.
ConnectSleepAttempts == GATEWAY_CONNECT_ATTEMPTS - 1

\* Line 187: for attempt in range(GATEWAY_CONNECT_ATTEMPTS), after attempt a
\* has failed: the next attempt, or the end of the loop and the return.
ConnectNext(c) ==
    IF c.attempt + 1 < GATEWAY_CONNECT_ATTEMPTS
    THEN [c EXCEPT !.pc = "attempt", !.attempt = @ + 1]
    ELSE [c EXCEPT !.pc = "done", !.attempt = @ + 1]

\* Lines 175-187: connect_to_gateway_with_retry(gateway_compute).
connect_to_gateway_with_retry(g) ==
    /\ conn.pc = "idle"
    /\ HasCompute(g)
    /\ conn' = [IdleConn EXCEPT !.pc = "attempt", !.host = Host(g)]
    /\ UNCHANGED <<lifecycleVars, conf, reg, extVars>>

\* Lines 188-198: one gateway_connections_pool.add returns a connection (the
\* loop breaks) or raises SSHError; a host already in the pool cannot fail.
\* A failure is followed by the sleep, or by the error log and the loop's next
\* step.
connect_pool_add(raises) ==
    /\ conn.pc = "attempt"
    /\ raises => conn.host \notin pool
    /\ LET c == [conn EXCEPT !.adds = @ + 1]
       IN IF ~raises
          THEN /\ pool' = pool_add(pool, conn.host)
               /\ entries' = entries_add(entries, conn.host)
               /\ closed' = closed \ {conn.host}
               /\ conn' = [c EXCEPT !.pc = "done", !.connection = conn.host]
          ELSE /\ UNCHANGED <<pool, entries, closed>>
               /\ conn' = IF conn.attempt < ConnectSleepAttempts
                          THEN [c EXCEPT !.pc = "sleep", !.sleeps = @ + 1]
                          ELSE ConnectNext(c)
    /\ UNCHANGED <<gw, rows, compute, pool0, PROCESSING_GATEWAYS_IDS, call>>
    /\ UNCHANGED <<conf, reg, extVars>>

\* Line 196: asyncio.sleep(GATEWAY_CONNECT_DELAY) returns; the loop goes on.
connect_sleep_returns ==
    /\ conn.pc = "sleep"
    /\ conn' = ConnectNext(conn)
    /\ UNCHANGED <<lifecycleVars, conf, reg, extVars>>

\* ----------------------------------------------------------- register_service
\* str.lstrip(chars): drop leading characters while they are in chars.
RECURSIVE lstrip(_, _)
lstrip(s, chars) ==
    IF s # <<>> /\ Head(s) \in chars THEN lstrip(Tail(s), chars) ELSE s

\* An optional string: None, or a sequence of characters.
NoneStr == [none |-> TRUE, s |-> <<>>]

Str(s) == [none |-> FALSE, s |-> s]

NoError == [kind |-> "none", msg |-> "none"]

\* run_model.gateway and run_model.service_spec of a run not yet registered.
FreshRun ==
    [gateway |-> None,
     service_spec |-> [set |-> FALSE, url_scheme |-> "none", domain |-> <<>>,
                       model_base_url_scheme |-> "none"]]

\* What a call is given: the project's default gateway (or none), the row's
\* status, stored configuration and wildcard_domain, and the run's configuration.
RegisterInputs ==
    {i \in [default_gateway : Gateways \cup {None},
            status : {"submitted", "provisioning", "running", "failed"},
            configuration : {"none", "public_ip", "private"},
            wildcard_domain : {NoneStr, Str(<<>>), Str(<<"*", ".", "a">>),
                               Str(<<".", "a">>), Str(<<"a">>), Str(<<"*", ".">>)},
            https : BOOLEAN,
            model : BOOLEAN] :
        /\ i.default_gateway # None =>
              /\ i.default_gateway \in rows
              /\ i.status = "running" => HasCompute(i.default_gateway)
        /\ i.default_gateway = None =>
              /\ i.status = "submitted" /\ i.configuration = "none"
              /\ i.wildcard_domain = NoneStr}

\* What the daemon is sent (the flags of lines 379-380) and how the remote call
\* ended; nothing before the call.
NothingSent == [service_https |-> FALSE, gateway_https |-> FALSE]

IdleReg ==
    [pc |-> "idle", run |-> FreshRun, remote_calls |-> 0, error |-> NoError,
     sent |-> NothingSent, outcome |-> "none",
     inp |-> [default_gateway |-> None, status |-> "submitted",
              configuration |-> "none", wildcard_domain |-> NoneStr,
              https |-> FALSE, model |-> FALSE]]

\* Line 353: gateway.wildcard_domain.lstrip("*.") if gateway.wildcard_domain else None
StrippedDomain(i) ==
    IF ~i.wildcard_domain.none /\ i.wildcard_domain.s # <<>>
    THEN Str(lstrip(i.wildcard_domain.s, {"*", "."}))
    ELSE NoneStr

\* gateway_https taken from the stored configuration alone: a row without a
\* configuration counts as private.
GatewayHttpsDefaultFalse(i) == i.configuration = "public_ip"

\* Lines 347-350: gateway_https.
GatewayHttps(i) ==
    IF i.configuration # "none" THEN i.configuration = "public_ip" ELSE TRUE

Protocol(https) == IF https THEN "https" ELSE "http"

\* The checks without the one on the gateway's status.
RegisterCheckSkippingStatus(i) ==
    CASE i.default_gateway = None ->
            [kind |-> "ResourceNotExistsError", msg |-> "Default gateway is not set"]
      [] ~HasCompute(i.default_gateway) ->
            [kind |-> "ServerClientError",
             msg |-> "Gateway has no instance associated with it"]
      [] i.configuration = "private" /\ i.https ->
            [kind |-> "ServerClientError",
             msg |-> "Cannot run HTTPS service on gateway without public IP"]
      [] StrippedDomain(i).none ->
            [kind |-> "ServerClientError", msg |-> "Domain is required for gateway"]
      [] OTHER -> NoError

\* The checks without the one on HTTPS over a private gateway.
RegisterCheckSkippingHttps(i) ==
    CASE i.default_gateway = None ->
            [kind |-> "ResourceNotExistsError", msg |-> "Default gateway is not set"]
      [] ~HasCompute(i.default_gateway) ->
            [kind |-> "ServerClientError",
             msg |-> "Gateway has no instance associated with it"]
      [] i.status # "running" ->
            [kind |-> "ServerClientError", msg |-> "Gateway status is not running"]
      [] StrippedDomain(i).none ->
            [kind |-> "ServerClientError", msg |-> "Domain is required for gateway"]
      [] OTHER -> NoError

\* Lines 321-355: the first check that fails, in the order of the code.
RegisterCheck(i) ==
    CASE i.default_gateway = None ->
            [kind |-> "ResourceNotExistsError", msg |-> "Default gateway is not set"]
      [] ~HasCompute(i.default_gateway) ->
            [kind |-> "ServerClientError",
             msg |-> "Gateway has no instance associated with it"]
      [] i.status # "running" ->
            [kind |-> "ServerClientError", msg |-> "Gateway status is not running"]
      [] i.configuration = "private" /\ i.https ->
            [kind |-> "ServerClientError",
             msg |-> "Cannot run HTTPS service on gateway without public IP"]
      [] StrippedDomain(i).none ->
            [kind |-> "ServerClientError", msg |-> "Domain is required for gateway"]
      [] OTHER -> NoError

\* Lines 356-363: the ServiceSpec; base_url only when the run configures a model.
ServiceSpecOf(i) ==
    [set |-> TRUE,
     url_scheme |-> Protocol(i.https),
     domain |-> StrippedDomain(i).s,
     model_base_url_scheme |-> IF i.model THEN Protocol(GatewayHttps(i)) ELSE "none"]

\* Lines 317-368: the checks; when they pass, the gateway and the service_spec
\* are written to run_model and the call awaits the pool's get.
register_service(i) ==
    /\ reg.pc = "idle"
    /\ reg' = IF RegisterCheck(i) # NoError
              THEN [reg EXCEPT !.pc = "failed", !.inp = i, !.error = RegisterCheck(i)]
              ELSE [reg EXCEPT !.pc = "get", !.inp = i,
                               !.run = [gateway |-> i.default_gateway,
                                        service_spec |-> ServiceSpecOf(i)]]
    /\ UNCHANGED <<lifecycleVars, conf, conn, extVars>>

\* Lines 368-370: the connection of the gateway's ip_address, or the error.
register_pool_get ==
    /\ reg.pc = "get"
    /\ reg' = IF pool_get(pool, Host(reg.inp.default_gateway)) = None
              THEN [reg EXCEPT !.pc = "failed",
                               !.error = [kind |-> "ServerClientError",
                                          msg |-> "Gateway is not connected"]]
              ELSE [reg EXCEPT !.pc = "call"]
    /\ UNCHANGED <<lifecycleVars, conf, conn, extVars>>

\* The remote call with GatewayError handled as unregister_service handles it.
register_remote_call_swallowing(outcome) ==
    /\ reg.pc = "call"
    /\ LET r == [reg EXCEPT !.remote_calls = @ + 1, !.outcome = outcome,
                            !.sent = [service_https |-> reg.inp.https,
                                      gateway_https |-> GatewayHttps(reg.inp)]]
       IN reg' =
            CASE outcome \in {"ok", "GatewayError"} -> [r EXCEPT !.pc = "done"]
              [] outcome = "SSHError" ->
                    [r EXCEPT !.pc = "failed",
                              !.error = [kind |-> "ServerClientError",
                                         msg |-> "Gateway tunnel is not working"]]
              [] OTHER ->
                    [r EXCEPT !.pc = "failed",
                              !.error = [kind |-> "GatewayError",
                                         msg |-> "Gateway is not working"]]
    /\ daemon' = IF outcome = "ok"
                 THEN daemon_register_service(daemon, TheRun) ELSE daemon
    /\ UNCHANGED <<lifecycleVars, conf, conn, daemon0, svc, otherVars>>

\* Lines 372-390: the remote register_service call returns or raises. SSHError
\* and httpx.RequestError are translated; a GatewayError of the daemon is
\* caught by no handler and leaves with the daemon's message.
register_remote_call(outcome) ==
    /\ reg.pc = "call"
    /\ LET r == [reg EXCEPT !.remote_calls = @ + 1, !.outcome = outcome,
                            !.sent = [service_https |-> reg.inp.https,
                                      gateway_https |-> GatewayHttps(reg.inp)]]
       IN reg' =
            CASE outcome = "ok" -> [r EXCEPT !.pc = "done"]
              [] outcome = "SSHError" ->
                    [r EXCEPT !.pc = "failed",
                              !.error = [kind |-> "ServerClientError",
                                         msg |-> "Gateway tunnel is not working"]]
              [] outcome = "RequestError" ->
                    [r EXCEPT !.pc = "failed",
                              !.error = [kind |-> "GatewayError",
                                         msg |-> "Gateway is not working"]]
              [] OTHER ->
                    [r EXCEPT !.pc = "failed",
                              !.error = [kind |-> "GatewayError", msg |-> "daemon"]]
    /\ daemon' = IF outcome = "ok"
                 THEN daemon_register_service(daemon, TheRun) ELSE daemon
    /\ UNCHANGED <<lifecycleVars, conf, conn, daemon0, svc, otherVars>>

\* ------------------------------- unregister_service, *_replica (lines 393-459)
ServiceOps == {"unregister_service", "unregister_replica", "register_replica"}

\* The calls made for the run so far, each with the daemon's answer ("none"
\* when the daemon was not asked), how the call left, and whether
\* register_service had returned when the daemon was asked.
IdleSvc == [pc |-> "idle", op |-> "none", error |-> NoError, hist |-> <<>>]

SvcLeft(op, outcome, result, msg) ==
    [pc |-> result, op |-> op,
     error |-> IF result = "done" THEN NoError
               ELSE [kind |-> "GatewayError", msg |-> msg],
     hist |-> Append(svc.hist, [op |-> op, outcome |-> outcome, result |-> result,
                                after |-> reg.pc = "done"])]

\* Lines 411, 430-437, 393: the call begins. unregister_replica returns at once
\* for a run without a gateway (lines 436-437).
service_call(op) ==
    /\ svc.pc \in {"idle", "done", "failed"}
    /\ Len(svc.hist) < MaxServiceCalls
    /\ svc' = IF op = "unregister_replica" /\ reg.run.gateway = None
              THEN SvcLeft(op, "none", "done", "none")
              ELSE [svc EXCEPT !.pc = "get", !.op = op, !.error = NoError]
    /\ UNCHANGED <<lifecycleVars, conf, conn, reg, daemon, daemon0, otherVars>>

\* Lines 462-473, called outside the try of lines 412, 439 and 396: its
\* GatewayError leaves the call.
get_gateway_connection ==
    /\ svc.pc = "get"
    /\ LET g == reg.run.gateway
       IN svc' =
            IF g = None \/ g \notin rows
            THEN SvcLeft(svc.op, "none", "failed", "Gateway doesn't exist")
            ELSE IF ~HasCompute(g)
            THEN SvcLeft(svc.op, "none", "failed", "Gateway is broken, no compute")
            ELSE IF pool_get(pool, Host(g)) = None
            THEN SvcLeft(svc.op, "none", "failed", "Gateway is not connected")
            ELSE [svc EXCEPT !.pc = "call"]
    /\ UNCHANGED <<lifecycleVars, conf, conn, reg, daemon, daemon0, otherVars>>

\* The remote call with the handlers of register_replica for every operation.
service_remote_call_surfacing(outcome) ==
    /\ svc.pc = "call"
    /\ outcome \in {daemon_answer(daemon, svc.op), "RequestError", "SSHError"}
    /\ svc' = SvcLeft(svc.op, outcome, IF outcome = "ok" THEN "done" ELSE "failed",
                      outcome)
    /\ daemon' = IF outcome = "ok" THEN daemon_apply(daemon, svc.op) ELSE daemon
    /\ UNCHANGED <<lifecycleVars, conf, conn, reg, daemon0, otherVars>>

\* The remote call that returns without the daemon having been asked.
service_remote_call_not_sent(outcome) ==
    /\ svc.pc = "call"
    /\ outcome \in {daemon_answer(daemon, svc.op), "RequestError", "SSHError"}
    /\ svc' = SvcLeft(svc.op, outcome,
                      IF \/ outcome = "ok"
                         \/ outcome = "GatewayError" /\ svc.op # "register_replica"
                      THEN "done" ELSE "failed",
                      outcome)
    /\ UNCHANGED <<lifecycleVars, conf, conn, reg, daemon, daemon0, otherVars>>

\* Lines 414-427, 440-459, 398-408: the remote call returns or raises. The
\* unregister_* calls catch the daemon's GatewayError and return; every call
\* turns httpx.RequestError and SSHError into GatewayError.
service_remote_call(outcome) ==
    /\ svc.pc = "call"
    /\ outcome \in {daemon_answer(daemon, svc.op), "RequestError", "SSHError"}
    /\ svc' = SvcLeft(svc.op, outcome,
                      IF \/ outcome = "ok"
                         \/ outcome = "GatewayError" /\ svc.op # "register_replica"
                      THEN "done" ELSE "failed",
                      outcome)
    /\ daemon' = IF outcome = "ok" THEN daemon_apply(daemon, svc.op) ELSE daemon
    /\ UNCHANGED <<lifecycleVars, conf, conn, reg, daemon0, otherVars>>

\* ----------------------------- create_gateway, set_default_gateway, the view
\* Gateway names; random_names.generate_name() draws from them.
Names == Gateways

NoGatewayConfiguration ==
    [name |-> None, default |-> FALSE, backend |-> "none", public_ip |-> FALSE]

NoProject == [rows |-> {}, default_gateway_id |-> None]

\* A caller's call: the configuration it was given, whether the name was
\* generated, project.default_gateway as the caller's project object has it,
\* the row the call inserted, the row set_default_gateway found, and the rows
\* and the default of the project when the call began (history).
IdleCr ==
    [pc |-> "idle", op |-> "none", cfg |-> NoGatewayConfiguration,
     generated |-> FALSE, had_default |-> FALSE, created |-> None,
     target |-> None, error |-> NoError, before |-> NoProject]

\* project.default_gateway is not None.
HasDefault == default_gateway_id \in rows

\* Ids no row was ever given. A call is admitted while there is an id left for
\* the row it may insert.
FreeIds == {g \in Gateways : gw[g].name = None}

Creating == {q \in Callers : cr[q].op = "create_gateway" /\ cr[q].pc \in {"name", "insert"}}

\* The checks of create_gateway without the one of lines 144-151.
CreateCheckBackendOnly(cfg) ==
    IF cfg.backend \notin ProjectBackends
    THEN [kind |-> "ServerClientError", msg |-> "backend"]
    ELSE NoError

\* Lines 140-151: the backend of the project, then the private-gateway check.
CreateCheck(cfg) ==
    IF cfg.backend \notin ProjectBackends
    THEN [kind |-> "ServerClientError", msg |-> "backend"]
    ELSE IF ~cfg.public_ip /\ cfg.backend \notin BACKENDS_WITH_PRIVATE_GATEWAY_SUPPORT
    THEN [kind |-> "ServerClientError", msg |-> "Private gateways are not supported"]
    ELSE NoError

\* Lines 140-154: the call begins; it fails a check or goes on to the name or
\* to the insert.
create_gateway(p, cfg) ==
    /\ cr[p].pc = "idle"
    /\ Cardinality(FreeIds) > Cardinality(Creating)
    /\ LET c == [IdleCr EXCEPT !.op = "create_gateway", !.cfg = cfg,
                               !.had_default = HasDefault,
                               !.before = [rows |-> rows,
                                           default_gateway_id |-> default_gateway_id]]
       IN cr' = [cr EXCEPT ![p] =
                    IF CreateCheck(cfg) # NoError
                    THEN [c EXCEPT !.pc = "failed", !.error = CreateCheck(cfg)]
                    ELSE [c EXCEPT !.pc = IF cfg.name = None THEN "name" ELSE "insert"]]
    /\ UNCHANGED <<lifecycleVars, conf, conn, reg, svcVars, default_gateway_id, init, domVars>>

\* The draw without the test of line 313.
AnyNames == Names

\* Lines 309-314: the names generate_gateway_name may return: those no row of
\* the project has.
FreshNames == Names \ {gw[g].name : g \in rows}

\* Lines 153-154, 308-314: the list of the project's rows returns and a name is
\* drawn until none of them has it.
generate_gateway_name(p, name) ==
    /\ cr[p].pc = "name"
    /\ name \in FreshNames
    /\ cr' = [cr EXCEPT ![p].cfg.name = name, ![p].generated = TRUE, ![p].pc = "insert"]
    /\ UNCHANGED <<lifecycleVars, conf, conn, reg, svcVars, default_gateway_id, init, domVars>>

\* Line 169 with the condition always true.
SetsDefaultAlways(c) == TRUE

\* Line 169: project.default_gateway is None or configuration.default.
SetsDefault(c) == ~c.had_default \/ c.cfg.default

\* Lines 156-170: the commit inserts the row (status SUBMITTED, no compute, the
\* configuration serialised), or the constraint refuses it; then the call
\* returns or goes on to set_default_gateway.
insert_gateway(p) ==
    /\ cr[p].pc = "insert"
    /\ LET c == cr[p]
           g == CHOOSE x \in FreeIds : \A y \in FreeIds : x <= y
       IN IF unique_name_violated(c.cfg.name)
          THEN /\ cr' = [cr EXCEPT ![p].pc = "failed",
                                   ![p].error = [kind |-> "IntegrityError",
                                                 msg |-> "name"]]
               /\ UNCHANGED <<gw, rows>>
          ELSE /\ gw' = [gw EXCEPT ![g] =
                            GatewayRow(c.cfg.name, c.cfg.backend, FALSE, "submitted",
                                       StoredConfiguration(c.cfg.default,
                                                           c.cfg.public_ip))]
               /\ rows' = rows \cup {g}
               /\ cr' = [cr EXCEPT ![p].created = g,
                                   ![p].pc = IF SetsDefault(c)
                                             THEN "set_default" ELSE "done"]
    /\ UNCHANGED <<compute, pool, pool0, entries, closed, PROCESSING_GATEWAYS_IDS, call>>
    /\ UNCHANGED <<conf, conn, reg, svcVars, default_gateway_id, init, domVars>>

\* Lines 274-287 called by the API: make the gateway of that name the default.
set_default_gateway(p, name) ==
    /\ cr[p].pc = "idle"
    /\ cr' = [cr EXCEPT ![p] =
                [IdleCr EXCEPT !.op = "set_default_gateway", !.pc = "set_default",
                               !.cfg.name = name, !.had_default = HasDefault,
                               !.before = [rows |-> rows,
                                           default_gateway_id |-> default_gateway_id]]]
    /\ UNCHANGED <<lifecycleVars, conf, conn, reg, svcVars, default_gateway_id, init, domVars>>

\* Lines 275-277: the row of that name, or ResourceNotExistsError.
set_default_lookup(p) ==
    /\ cr[p].pc = "set_default"
    /\ LET found == {g \in rows : gw[g].name = cr[p].cfg.name}
       IN cr' = [cr EXCEPT ![p] =
                    IF found = {}
                    THEN [@ EXCEPT !.pc = "failed",
                                   !.error = [kind |-> "ResourceNotExistsError",
                                              msg |-> "none"]]
                    ELSE [@ EXCEPT !.pc = "update",
                                   !.target = CHOOSE g \in found : TRUE]]
    /\ UNCHANGED <<lifecycleVars, conf, conn, reg, svcVars, default_gateway_id, init, domVars>>

\* Lines 278-287: the update of the project row is committed; the call returns.
set_default_commit(p) ==
    /\ cr[p].pc = "update"
    /\ default_gateway_id' = cr[p].target
    /\ cr' = [cr EXCEPT ![p].pc = "done"]
    /\ UNCHANGED <<lifecycleVars, conf, conn, reg, svcVars, init, domVars>>

\* Lines 555-565: the stored configuration, or the one made up for a row
\* without it (default False; public_ip by the default of GatewayConfiguration).
get_gateway_configuration(g) ==
    IF gw[g].configuration.present
    THEN [name |-> gw[g].name, default |-> gw[g].configuration.default,
          backend |-> gw[g].backend, public_ip |-> gw[g].configuration.public_ip]
    ELSE [name |-> gw[g].name, default |-> FALSE,
          backend |-> gw[g].backend, public_ip |-> TRUE]

\* The view with the configuration as it is stored.
gateway_model_to_gateway_stored(g) ==
    [name |-> gw[g].name,
     default |-> default_gateway_id = g,
     backend |-> IF gw[g].backend = "dstack" THEN "aws" ELSE gw[g].backend,
     status |-> gw[g].status,
     configuration |-> get_gateway_configuration(g)]

\* Lines 568-591: the view of a row; default, in the view and in its
\* configuration, is whether the project's default_gateway_id is the row's id.
gateway_model_to_gateway(g) ==
    [name |-> gw[g].name,
     default |-> default_gateway_id = g,
     backend |-> IF gw[g].backend = "dstack" THEN "aws" ELSE gw[g].backend,
     status |-> gw[g].status,
     configuration |-> [get_gateway_configuration(g) EXCEPT
                           !.default = (default_gateway_id = g)]]

\* ----------------------------------------------- init_gateways (lines 476-514)
\* gather_map_async starts one task per item and returns when all have
\* returned, an exception of a task being its result. A task of a phase is
\* "running" from the start of the phase until it returns "ok" or "err".
NoTasks == [connect |-> "none", update |-> "none", configure |-> "none"]

IdleInit ==
    [pc |-> "idle", SKIP_GATEWAY_UPDATE |-> FALSE, todo |-> {},
     task |-> [g \in Gateways |-> NoTasks]]

TaskResult(raises) == IF raises THEN "err" ELSE "ok"

\* The start of init_gateways with the query of lines 477-483 unfiltered: every
\* compute there is, is selected.
init_gateways_all_computes(skip) ==
    /\ init.pc = "idle"
    /\ LET selected == {g \in Gateways : compute[g].ip_address # None}
       IN init' = [pc |-> "connect", SKIP_GATEWAY_UPDATE |-> skip, todo |-> selected,
                   task |-> [g \in Gateways |->
                               IF g \in selected
                               THEN [NoTasks EXCEPT !.connect = "running"]
                               ELSE NoTasks]]
    /\ UNCHANGED <<lifecycleVars, conf, conn, reg, svcVars, projVars, domVars>>

\* Lines 477-491: the computes that are active and not deleted are selected
\* and a pool.add is started for each.
init_gateways(skip) ==
    /\ init.pc = "idle"
    /\ LET selected == {g \in Gateways : compute[g].active /\ ~compute[g].deleted}
       IN init' = [pc |-> "connect", SKIP_GATEWAY_UPDATE |-> skip, todo |-> selected,
                   task |-> [g \in Gateways |->
                               IF g \in selected
                               THEN [NoTasks EXCEPT !.connect = "running"]
                               ELSE NoTasks]]
    /\ UNCHANGED <<lifecycleVars, conf, conn, reg, svcVars, projVars, domVars>>

\* Line 489: the pool.add of one compute returns, or raises; a host already in
\* the pool cannot fail.
init_pool_add(g, raises) ==
    /\ init.pc = "connect"
    /\ g \in init.todo
    /\ raises => Host(g) \notin pool
    /\ pool' = IF raises THEN pool ELSE pool_add(pool, Host(g))
    /\ entries' = IF raises THEN entries ELSE entries_add(entries, Host(g))
    /\ closed' = IF raises THEN closed ELSE closed \ {Host(g)}
    /\ init' = [init EXCEPT !.todo = @ \ {g},
                            !.task[g].connect = TaskResult(raises)]
    /\ UNCHANGED <<gw, rows, compute, pool0, PROCESSING_GATEWAYS_IDS, call>>
    /\ UNCHANGED <<conf, conn, reg, svcVars, projVars, domVars>>

\* Lines 487-506: every pool.add has returned; the failures are logged. With
\* SKIP_GATEWAY_UPDATE the update is skipped and configure_gateway is started
\* on every connection of the pool, else _update_gateway is.
init_connected ==
    /\ init.pc = "connect"
    /\ init.todo = {}
    /\ init' =
         IF init.SKIP_GATEWAY_UPDATE
         THEN [init EXCEPT !.pc = "configure", !.todo = pool,
                           !.task = [g \in Gateways |->
                                       IF Host(g) \in pool
                                       THEN [@[g] EXCEPT !.configure = "running"]
                                       ELSE @[g]]]
         ELSE [init EXCEPT !.pc = "update", !.todo = pool,
                           !.task = [g \in Gateways |->
                                       IF Host(g) \in pool
                                       THEN [@[g] EXCEPT !.update = "running"]
                                       ELSE @[g]]]
    /\ UNCHANGED <<lifecycleVars, conf, conn, reg, svcVars, projVars, domVars>>

\* Lines 517-523: the _update_gateway of one connection returns, or raises.
update_gateway(g, raises) ==
    /\ init.pc = "update"
    /\ g \in init.todo
    /\ init' = [init EXCEPT !.todo = @ \ {g},
                            !.task[g].update = TaskResult(raises)]
    /\ UNCHANGED <<lifecycleVars, conf, conn, reg, svcVars, projVars, domVars>>

\* The phase after the updates in which a failed update leaves init_gateways.
init_updated_raising ==
    /\ init.pc = "update"
    /\ init.todo = {}
    /\ init' =
         IF \E g \in Gateways : init.task[g].update = "err"
         THEN [init EXCEPT !.pc = "raised"]
         ELSE [init EXCEPT !.pc = "configure", !.todo = pool,
                           !.task = [g \in Gateways |->
                                       IF Host(g) \in pool
                                       THEN [@[g] EXCEPT !.configure = "running"]
                                       ELSE @[g]]]
    /\ UNCHANGED <<lifecycleVars, conf, conn, reg, svcVars, projVars, domVars>>

\* Lines 500-512: every update has returned; the failures are logged and
\* configure_gateway is started on every connection of the pool.
init_updated ==
    /\ init.pc = "update"
    /\ init.todo = {}
    /\ init' = [init EXCEPT !.pc = "configure", !.todo = pool,
                            !.task = [g \in Gateways |->
                                        IF Host(g) \in pool
                                        THEN [@[g] EXCEPT !.configure = "running"]
                                        ELSE @[g]]]
    /\ UNCHANGED <<lifecycleVars, conf, conn, reg, svcVars, projVars, domVars>>

\* Line 510: the configure_gateway of one connection returns, or raises after
\* its attempts.
init_configure_gateway(g, raises) ==
    /\ init.pc = "configure"
    /\ g \in init.todo
    /\ init' = [init EXCEPT !.todo = @ \ {g},
                            !.task[g].configure = TaskResult(raises)]
    /\ UNCHANGED <<lifecycleVars, conf, conn, reg, svcVars, projVars, domVars>>

\* Lines 508-514: every configure_gateway has returned; the failures are
\* logged and init_gateways returns.
init_configured ==
    /\ init.pc = "configure"
    /\ init.todo = {}
    /\ init' = [init EXCEPT !.pc = "done"]
    /\ UNCHANGED <<lifecycleVars, conf, conn, reg, svcVars, projVars, domVars>>

\* ------------------------------ set_gateway_wildcard_domain (lines 241-271)
IdleDom ==
    [pc |-> "idle", name |-> None, wildcard_domain |-> NoneStr, error |-> "none",
     result |-> NoneStr]

\* get_project_gateway_model_by_name (lines 296-305): the rows of that name;
\* names are unique in the project.
GatewaysNamed(name) == {g \in rows : gw[g].name = name}

\* The call with the check of lines 250-251 left out.
set_gateway_wildcard_domain_any_backend(name, d) ==
    /\ dom.pc = "idle"
    /\ dom' = IF GatewaysNamed(name) = {}
              THEN [IdleDom EXCEPT !.pc = "raised", !.error = "ResourceNotExistsError"]
              ELSE [IdleDom EXCEPT !.pc = "update", !.name = name,
                                   !.wildcard_domain = d]
    /\ UNCHANGED <<lifecycleVars, conf, conn, reg, svcVars, projVars, init,
                   wildcard_domain>>

\* Lines 247-251: the gateway is looked up by name; ResourceNotExistsError when
\* there is none, ServerClientError when its backend is DSTACK.
set_gateway_wildcard_domain(name, d) ==
    /\ dom.pc = "idle"
    /\ dom' = IF GatewaysNamed(name) = {}
              THEN [IdleDom EXCEPT !.pc = "raised", !.error = "ResourceNotExistsError"]
              ELSE IF \E g \in GatewaysNamed(name) : gw[g].backend = "dstack"
              THEN [IdleDom EXCEPT !.pc = "raised", !.error = "ServerClientError"]
              ELSE [IdleDom EXCEPT !.pc = "update", !.name = name,
                                   !.wildcard_domain = d]
    /\ UNCHANGED <<lifecycleVars, conf, conn, reg, svcVars, projVars, init,
                   wildcard_domain>>

\* Lines 252-266: the UPDATE of the rows of the project with that name, and
\* its commit.
domain_update ==
    /\ dom.pc = "update"
    /\ wildcard_domain' = [g \in Gateways |->
                             IF g \in GatewaysNamed(dom.name)
                             THEN dom.wildcard_domain
                             ELSE wildcard_domain[g]]
    /\ dom' = [dom EXCEPT !.pc = "lookup"]
    /\ UNCHANGED <<lifecycleVars, conf, conn, reg, svcVars, projVars, init>>

\* Lines 267-271: the row is read again and its view is returned;
\* ResourceNotExistsError when it is gone.
domain_return ==
    /\ dom.pc = "lookup"
    /\ dom' = IF GatewaysNamed(dom.name) = {}
              THEN [IdleDom EXCEPT !.pc = "raised", !.error = "ResourceNotExistsError"]
              ELSE [dom EXCEPT !.pc = "done",
                               !.result = wildcard_domain[
                                   CHOOSE g \in GatewaysNamed(dom.name) : TRUE]]
    /\ UNCHANGED <<lifecycleVars, conf, conn, reg, svcVars, projVars, init,
                   wildcard_domain>>

\* ------------------------------------------------------------------- Init
\* A project's gateways after start-up: each row with its backend and, when it
\* has been provisioned, its compute (active, not deleted); the pool holds
\* connections to some of the computes; no call is in progress.
\* The pool stores one Connection for each of its hosts and none is closed.
PoolFresh ==
    /\ entries = [h \in Gateways |-> IF h \in pool THEN 1 ELSE 0]
    /\ closed = {}

\* No gateway has a wildcard domain.
NoDomains == wildcard_domain = [g \in Gateways |-> NoneStr]

LifecycleInit ==
    /\ \E a \in [Gateways -> [backend : {"aws", "dstack"}, gateway_compute : BOOLEAN]] :
          gw = [g \in Gateways |->
                  GatewayRow(g, a[g].backend, a[g].gateway_compute,
                             IF a[g].gateway_compute THEN "running" ELSE "submitted",
                             StoredConfiguration(FALSE, TRUE))]
    /\ rows = Gateways
    /\ compute = [g \in Gateways |-> GatewayCompute(g, HasCompute(g))]
    /\ pool \in SUBSET {Host(g) : g \in {x \in Gateways : HasCompute(x)}}
    /\ pool0 = pool
    /\ PoolFresh
    /\ NoDomains
    /\ PROCESSING_GATEWAYS_IDS = {}
    /\ call = [p \in Callers |-> IdleCall]

NoServices == [services |-> {}, replicas |-> {}]

ServiceIdle ==
    /\ daemon = NoServices
    /\ daemon0 = daemon
    /\ svc = IdleSvc

ProjectIdle ==
    /\ default_gateway_id = None
    /\ cr = [p \in Callers |-> IdleCr]

CallsIdle ==
    /\ conf = IdleConf
    /\ conn = IdleConn
    /\ reg = IdleReg
    /\ ServiceIdle
    /\ ProjectIdle
    /\ init = IdleInit
    /\ dom = IdleDom

\* ------------------------------------------------------------- SpecDelete
InitDelete == LifecycleInit /\ CallsIdle

NextDelete ==
    \/ \E names \in SUBSET Gateways : delete_gateways("c1", names)
    \/ \E g \in Gateways : terminate_gateway_lock("c1", g)
    \/ \E g \in Gateways, raises \in BOOLEAN : terminate_instance("c1", g, raises)
    \/ gather_returns("c1")
    \/ \E raises \in BOOLEAN : remove_terminated("c1", raises)
    \/ \E raises \in BOOLEAN : commit("c1", raises)
    \/ cancel("c1")

SpecDelete == InitDelete /\ [][NextDelete]_vars

\* ------------------------------------------------------------ SpecConnect
InitConnect == LifecycleInit /\ CallsIdle

NextConnect ==
    \/ \E g \in Gateways : connect_to_gateway_with_retry(g)
    \/ \E raises \in BOOLEAN : connect_pool_add(raises)
    \/ connect_sleep_returns

SpecConnect == InitConnect /\ [][NextConnect]_vars

\* ---------------------------------------------------------- SpecConfigure
InitConfigure == LifecycleInit /\ CallsIdle

NextConfigure ==
    \/ \E h \in Gateways : configure_gateway(h)
    \/ \E outcome \in {"ok", "RequestError", "GatewayError"} :
          submit_gateway_config(outcome)
    \/ configure_sleep_returns

SpecConfigure == InitConfigure /\ [][NextConfigure]_vars

\* ----------------------------------------------------------- SpecRegister
InitRegister ==
    /\ LifecycleInit
    /\ \A g \in Gateways : gw[g].backend = "aws"
    /\ CallsIdle

NextRegister ==
    \/ \E i \in RegisterInputs : register_service(i)
    \/ register_pool_get
    \/ \E outcome \in {"ok", "SSHError", "RequestError", "GatewayError"} :
          register_remote_call(outcome)

SpecRegister == InitRegister /\ [][NextRegister]_vars

\* ----------------------------------------------------------- SpecService
\* One run on a project whose gateways are provisioned gateways of a user's
\* backend, the project's default gateway connected or not, with whatever the
\* daemon had registered before: the run is registered, its replicas are
\* registered and unregistered, the service is unregistered.
ServiceInputs ==
    {[default_gateway |-> g, status |-> "running", configuration |-> "public_ip",
      wildcard_domain |-> Str(<<"a">>), https |-> TRUE, model |-> FALSE] :
        g \in {x \in rows : x = 1 /\ HasCompute(x)}}

InitService ==
    /\ LifecycleInit
    /\ \A g \in Gateways : gw[g].backend = "aws" /\ HasCompute(g)
    /\ \E connected \in BOOLEAN :
          pool = {Host(g) : g \in Gateways} \ (IF connected THEN {} ELSE {Host(1)})
    /\ conf = IdleConf /\ conn = IdleConn /\ reg = IdleReg
    /\ daemon \in [services : SUBSET Runs, replicas : SUBSET {TheJob}]
    /\ daemon0 = daemon
    /\ svc = IdleSvc
    /\ ProjectIdle
    /\ init = IdleInit
    /\ dom = IdleDom

NextService ==
    \/ \E i \in ServiceInputs : register_service(i)
    \/ register_pool_get
    \/ \E outcome \in {"ok", "SSHError", "RequestError", "GatewayError"} :
          register_remote_call(outcome)
    \/ \E op \in ServiceOps : service_call(op)
    \/ get_gateway_connection
    \/ \E outcome \in {"ok", "SSHError", "RequestError", "GatewayError"} :
          service_remote_call(outcome)

SpecService == InitService /\ [][NextService]_vars

\* ------------------------------------------------------------ SpecCreate
\* A project with some running, connected gateways of a user's backend, one of
\* them the default or none; the other ids are free.
ProjectInit ==
    /\ \E R \in SUBSET Gateways :
          /\ rows = R
          /\ gw = [g \in Gateways |->
                     IF g \in R
                     THEN GatewayRow(g, "aws", TRUE, "running",
                                     StoredConfiguration(FALSE, TRUE))
                     ELSE NoRow]
          /\ compute = [g \in Gateways |-> GatewayCompute(g, g \in R)]
          /\ pool = {Host(g) : g \in R}
    /\ pool0 = pool
    /\ PoolFresh
    /\ NoDomains
    /\ PROCESSING_GATEWAYS_IDS = {}
    /\ call = [p \in Callers |-> IdleCall]
    /\ default_gateway_id \in rows \cup {None}
    /\ cr = [p \in Callers |-> IdleCr]
    /\ conf = IdleConf /\ conn = IdleConn /\ reg = IdleReg
    /\ ServiceIdle
    /\ init = IdleInit
    /\ dom = IdleDom

\* The configurations a create_gateway call is given.
GatewayConfigurations ==
    [name : Names \cup {None}, default : BOOLEAN,
     backend : {"aws", "kubernetes", "gcp"}, public_ip : BOOLEAN]

\* One create_gateway call at a time, with every configuration.
NextCreate ==
    \/ \E cfg \in GatewayConfigurations : create_gateway("c1", cfg)
    \/ \E name \in Names : generate_gateway_name("c1", name)
    \/ insert_gateway("c1")
    \/ set_default_lookup("c1")
    \/ set_default_commit("c1")

SpecCreate == ProjectInit /\ [][NextCreate]_vars

\* ----------------------------------------------------------- SpecProject
\* Two callers create public gateways on aws or set the default while one of
\* them deletes gateways, in every interleaving of their steps.
ProjectConfigurations ==
    {cfg \in GatewayConfigurations : cfg.backend = "aws" /\ cfg.public_ip}

NextProject ==
    \/ \E p \in Callers, cfg \in ProjectConfigurations : create_gateway(p, cfg)
    \/ \E p \in Callers, name \in Names : generate_gateway_name(p, name)
    \/ \E p \in Callers : insert_gateway(p)
    \/ \E p \in Callers, name \in Names : set_default_gateway(p, name)
    \/ \E p \in Callers : set_default_lookup(p)
    \/ \E p \in Callers : set_default_commit(p)
    \/ \E names \in SUBSET Names : delete_gateways("c1", names)
    \/ \E g \in Gateways : terminate_gateway_lock("c1", g)
    \/ \E g \in Gateways, raises \in BOOLEAN : terminate_instance("c1", g, raises)
    \/ gather_returns("c1")
    \/ \E raises \in BOOLEAN : remove_terminated("c1", raises)
    \/ \E raises \in BOOLEAN : commit("c1", raises)

SpecProject == ProjectInit /\ [][NextProject]_vars

\* -------------------------------------------------------------- SpecInit
\* The server starts: the pool is empty; a gateway has no compute, a live
\* compute, or (its row deleted) a deleted one.
InitInit ==
    /\ \E kind \in [Gateways -> {"none", "live", "deleted"}] :
          /\ rows = {g \in Gateways : kind[g] # "deleted"}
          /\ gw = [g \in Gateways |->
                     GatewayRow(g, "aws", kind[g] # "none",
                                IF kind[g] = "none" THEN "submitted" ELSE "running",
                                StoredConfiguration(FALSE, TRUE))]
          /\ compute = [g \in Gateways |->
                          IF kind[g] = "deleted"
                          THEN [GatewayCompute(g, TRUE) EXCEPT !.active = FALSE,
                                                             !.deleted = TRUE]
                          ELSE GatewayCompute(g, kind[g] = "live")]
    /\ pool = {}
    /\ pool0 = pool
    /\ PoolFresh
    /\ NoDomains
    /\ PROCESSING_GATEWAYS_IDS = {}
    /\ call = [p \in Callers |-> IdleCall]
    /\ conf = IdleConf /\ conn = IdleConn /\ reg = IdleReg
    /\ ServiceIdle
    /\ ProjectIdle
    /\ init = IdleInit
    /\ dom = IdleDom

NextInit ==
    \/ \E skip \in BOOLEAN : init_gateways(skip)
    \/ \E g \in Gateways, raises \in BOOLEAN : init_pool_add(g, raises)
    \/ init_connected
    \/ \E g \in Gateways, raises \in BOOLEAN : update_gateway(g, raises)
    \/ init_updated
    \/ \E g \in Gateways, raises \in BOOLEAN : init_configure_gateway(g, raises)
    \/ init_configured

\* The event loop runs every task that can run: a step that stays possible is
\* taken.
SpecInit == InitInit /\ [][NextInit]_vars /\ WF_vars(NextInit)

\* -------------------------------------------------------------- SpecPool
\* The writers of the pool side by side: the adds of init_gateways and of one
\* connect_to_gateway_with_retry, and the removes of one delete_gateways.
NextPool ==
    \/ init_gateways(TRUE)
    \/ \E g \in Gateways, raises \in BOOLEAN : init_pool_add(g, raises)
    \/ init_connected
    \/ \E g \in Gateways : connect_to_gateway_with_retry(g)
    \/ connect_pool_add(FALSE)
    \/ \E names \in SUBSET Gateways : delete_gateways("c1", names)
    \/ \E g \in Gateways : terminate_gateway_lock("c1", g)
    \/ \E g \in Gateways : terminate_instance("c1", g, FALSE)
    \/ gather_returns("c1")
    \/ remove_terminated("c1", FALSE)
    \/ commit("c1", FALSE)

SpecPool == InitInit /\ [][NextPool]_vars

\* -------------------------------------------------------------- SpecRace
\* register_service, which takes no lock, next to one delete_gateways.
NextRace ==
    \/ \E i \in ServiceInputs : register_service(i)
    \/ register_pool_get
    \/ \E outcome \in {"ok", "SSHError", "RequestError", "GatewayError"} :
          register_remote_call(outcome)
    \/ \E names \in SUBSET Gateways : delete_gateways("c1", names)
    \/ \E g \in Gateways : terminate_gateway_lock("c1", g)
    \/ \E g \in Gateways : terminate_instance("c1", g, FALSE)
    \/ gather_returns("c1")
    \/ remove_terminated("c1", FALSE)
    \/ commit("c1", FALSE)

SpecRace == InitRegister /\ [][NextRace]_vars

\* ------------------------------------------------------------ SpecDomain
\* set_gateway_wildcard_domain on a project whose gateways are absent, of a
\* user's backend or of the managed-default backend, with or without a domain.
WildcardDomains == {NoneStr, Str(<<"*", ".", "a">>), Str(<<"b">>)}

InitDomain ==
    /\ \E kind \in [Gateways -> {"none", "aws", "dstack"}] :
          /\ rows = {g \in Gateways : kind[g] # "none"}
          /\ gw = [g \in Gateways |->
                     IF kind[g] = "none" THEN NoRow
                     ELSE GatewayRow(g, kind[g], TRUE, "running",
                                     StoredConfiguration(FALSE, TRUE))]
          /\ compute = [g \in Gateways |-> GatewayCompute(g, g \in rows)]
          /\ pool = {Host(g) : g \in rows}
    /\ pool0 = pool
    /\ entries = [h \in Gateways |-> IF h \in pool THEN 1 ELSE 0]
    /\ closed = {}
    /\ wildcard_domain \in [Gateways -> {NoneStr, Str(<<"b">>)}]
    /\ \A g \in Gateways : g \notin rows => wildcard_domain[g] = NoneStr
    /\ PROCESSING_GATEWAYS_IDS = {}
    /\ call = [p \in Callers |-> IdleCall]
    /\ CallsIdle

NextDomain ==
    \/ \E name \in Names, d \in WildcardDomains : set_gateway_wildcard_domain(name, d)
    \/ domain_update
    \/ domain_return

SpecDomain == InitDomain /\ [][NextDomain]_vars

\* ------------------------------------------------------------------- Spec
\* Every gateway is a provisioned, connected gateway of a user's backend: the
\* case in which calls contend for the registry. The gateway daemon is up, so
\* a configure_gateway call does not retry (SpecConfigure explores the retries).
Init ==
    /\ LifecycleInit
    /\ \A g \in Gateways : gw[g].backend = "aws" /\ HasCompute(g)
    /\ pool = {Host(g) : g \in Gateways}
    /\ CallsIdle

Next ==
    \/ \E p \in Callers, names \in SUBSET Gateways : delete_gateways(p, names)
    \/ \E p \in Callers, g \in Gateways : terminate_gateway_lock(p, g)
    \/ \E p \in Callers, g \in Gateways, raises \in BOOLEAN :
          terminate_instance(p, g, raises)
    \/ \E p \in Callers : gather_returns(p)
    \/ \E p \in Callers, raises \in BOOLEAN : remove_terminated(p, raises)
    \/ \E p \in Callers, raises \in BOOLEAN : commit(p, raises)
    \/ \E p \in Callers : cancel(p)
    \/ \E h \in Gateways : configure_gateway(h)
    \/ \E outcome \in {"ok", "GatewayError"} : submit_gateway_config(outcome)

Spec == Init /\ [][Next]_vars

\* ================================================================ claims
Selected(p) == Range(call[p].gateways)

InFlight(p) == call[p].pc \in {"gather", "loop", "commit"}

\* Caller p holds id g: its task has returned from wait_to_lock and its
\* release loop has not run.
Holds(p, g) ==
    /\ call[p].pc \in {"gather", "loop"}
    /\ call[p].task[g] \in {"locked", "ok", "err"}

Flags(g) == [active |-> compute[g].active, deleted |-> compute[g].deleted]

Live == [active |-> TRUE, deleted |-> FALSE]

Tombstone == [active |-> FALSE, deleted |-> TRUE]

\* C1: when delete_gateways has returned, every id it selected is out of the
\* registry, whichever of its terminations raised.
C1_AllIdsReleasedOnReturn ==
    call["c1"].pc = "done" => Selected("c1") \cap PROCESSING_GATEWAYS_IDS = {}

\* C1 witness: a returned call in which one termination raised and another
\* succeeded.
C1_Witness ==
    /\ call["c1"].pc = "done"
    /\ \E g1, g2 \in Selected("c1") :
          call["c1"].task[g1] = "err" /\ call["c1"].task[g2] = "ok"

\* C2: whenever no delete_gateways call is in flight the registry is empty,
\* also after a call was left by an exception or a cancellation.
C2_RegistryEmptyWhenNothingInFlight ==
    (\A p \in Callers : ~InFlight(p)) => PROCESSING_GATEWAYS_IDS = {}

C4_DeleteOutcome ==
    call["c1"].pc = "done" =>
        \A g \in Selected("c1") :
            /\ call["c1"].task[g] = "ok" =>
                  /\ g \notin rows
                  /\ HasCompute(g) => Host(g) \notin pool /\ Flags(g) = Tombstone
            /\ call["c1"].task[g] = "err" =>
                  /\ g \in rows
                  /\ Flags(g) = Live
                  /\ Host(g) \in pool <=> Host(g) \in pool0

\* C4 witness: a returned call that terminated one connected gateway and failed
\* to terminate another connected gateway.
C4_Witness ==
    /\ call["c1"].pc = "done"
    /\ \E g1, g2 \in Selected("c1") :
          /\ call["c1"].task[g1] = "err" /\ Host(g1) \in pool0
          /\ call["c1"].task[g2] = "ok" /\ Host(g2) \in pool0

\* C5: connect_to_gateway_with_retry makes at most 30 pool adds, sleeps once
\* between two consecutive adds, and returns the connection of its first
\* successful add or, after exactly 30 failed adds, None.
C5_ConnectTotal ==
    /\ conn.adds <= GATEWAY_CONNECT_ATTEMPTS
    /\ conn.pc = "attempt" => conn.sleeps = conn.adds /\ conn.attempt = conn.adds
    /\ conn.pc = "done" =>
          /\ conn.sleeps = conn.adds - 1
          /\ \/ conn.connection = conn.host /\ conn.host \in pool
             \/ conn.connection = None /\ conn.adds = GATEWAY_CONNECT_ATTEMPTS

\* C5 witness: the call has returned None after its 30 failed adds.
C5_Witness ==
    conn.pc = "done" /\ conn.connection = None /\ conn.sleeps = 29

\* C6: configure_gateway makes at most 40 submit_gateway_config calls, and
\* when it returns after k failed calls it has made k + 1 calls and slept k
\* times, each sleep following a RequestError.
C6_ConfigureAttempts ==
    /\ conf.calls <= GATEWAY_CONFIGURE_ATTEMPTS
    /\ conf.pc = "sleep" => conf.last = "RequestError" /\ conf.sleeps = conf.calls
    /\ conf.pc = "attempt" => conf.sleeps = conf.calls
    /\ conf.pc = "done" => conf.last = "ok" /\ conf.calls = conf.sleeps + 1

\* C6 witness: three RequestErrors, then success at the fourth call.
C6_Witness ==
    conf.pc = "done" /\ conf.calls = 4 /\ conf.sleeps = 3

\* C7: an error that is not a RequestError leaves configure_gateway at once,
\* a RequestError is swallowed only before the 40th call, and the RequestError
\* of the 40th call leaves configure_gateway.
C7_OnlyRequestErrorSwallowed ==
    /\ conf.last = "GatewayError" => conf.pc = "raised" /\ conf.error = "GatewayError"
    /\ conf.last = "RequestError" /\ conf.calls = GATEWAY_CONFIGURE_ATTEMPTS =>
          conf.pc = "raised" /\ conf.error = "RequestError"
    /\ conf.last = "RequestError" /\ conf.calls < GATEWAY_CONFIGURE_ATTEMPTS =>
          conf.pc \in {"sleep", "attempt"}
    /\ conf.pc = "raised" => conf.error = conf.last /\ conf.last # "ok"

\* C7 witness: the 40th call has raised RequestError and the error has left
\* configure_gateway.
C7_Witness ==
    /\ conf.pc = "raised" /\ conf.error = "RequestError"
    /\ conf.calls = 40 /\ conf.sleeps = 39

RegisterCalled == reg.pc # "idle"

RunUnmodified == reg.run = FreshRun

\* C8: a register_service call that fails with "Gateway is not connected" has
\* made no remote call and has left the run's gateway and service_spec as
\* they were.
C8_NotConnectedLeavesRunUnmodified ==
    (reg.pc = "failed" /\ reg.error.msg = "Gateway is not connected") =>
        reg.remote_calls = 0 /\ RunUnmodified

\* C9: without a default gateway register_service fails with
\* ResourceNotExistsError, and with a default gateway that has no compute or is
\* not running it fails with ServerClientError; no remote call is made and the
\* run is not modified.
C9_GatewayPreconditions ==
    /\ RegisterCalled /\ reg.inp.default_gateway = None =>
          /\ reg.pc = "failed" /\ reg.error.kind = "ResourceNotExistsError"
          /\ reg.remote_calls = 0 /\ RunUnmodified
    /\ /\ RegisterCalled /\ reg.inp.default_gateway # None
       /\ ~HasCompute(reg.inp.default_gateway) \/ reg.inp.status # "running"
       => /\ reg.pc = "failed" /\ reg.error.kind = "ServerClientError"
          /\ reg.remote_calls = 0 /\ RunUnmodified

\* C9 witness: the call has failed on a default gateway that has a compute and
\* is still provisioning.
C9_Witness ==
    /\ reg.pc = "failed" /\ reg.inp.default_gateway # None
    /\ HasCompute(reg.inp.default_gateway) /\ reg.inp.status = "provisioning"

\* C10: for a run that requests https on a gateway configured without a public
\* ip, register_service fails with ServerClientError, with the message "Cannot
\* run HTTPS service on gateway without public IP" once the gateway has a
\* compute and is running; no remote call is made and the run is not modified.
C10_HttpsOnPrivateGateway ==
    /\ RegisterCalled /\ reg.inp.default_gateway # None
    /\ reg.inp.https /\ reg.inp.configuration = "private"
    => /\ reg.pc = "failed" /\ reg.error.kind = "ServerClientError"
       /\ reg.remote_calls = 0 /\ RunUnmodified
       /\ HasCompute(reg.inp.default_gateway) /\ reg.inp.status = "running" =>
             reg.error.msg = "Cannot run HTTPS service on gateway without public IP"

\* C10 witness: the call has failed with that message on a running, connected
\* gateway.
C10_Witness ==
    /\ reg.pc = "failed"
    /\ reg.error.msg = "Cannot run HTTPS service on gateway without public IP"
    /\ reg.inp.status = "running" /\ Host(reg.inp.default_gateway) \in pool

\* The gateway of the call has a public ip: its stored configuration says so,
\* or it has no stored configuration.
HasPublicIp(i) == i.configuration # "private"

\* C11: in a successful register_service the service url is https iff the run
\* asked for https, the gateway_https flag sent to the daemon and the scheme of
\* the model's base_url are https iff the gateway has a public ip (a row without
\* a configuration counts as public), and an https service never goes with an
\* http gateway.
C11_ProtocolSelection ==
    reg.pc = "done" =>
        /\ reg.run.service_spec.url_scheme = (IF reg.inp.https THEN "https" ELSE "http")
        /\ reg.sent.service_https = reg.inp.https
        /\ reg.sent.gateway_https = HasPublicIp(reg.inp)
        /\ reg.inp.model =>
              reg.run.service_spec.model_base_url_scheme
                = (IF HasPublicIp(reg.inp) THEN "https" ELSE "http")
        /\ ~(reg.run.service_spec.url_scheme = "https" /\ ~reg.sent.gateway_https)

\* C11 witness: a registered https service with a model on a gateway whose row
\* has no stored configuration.
C11_Witness ==
    /\ reg.pc = "done" /\ reg.inp.https /\ reg.inp.model
    /\ reg.inp.configuration = "none"
    /\ reg.run.service_spec.model_base_url_scheme = "https"

\* C12: in the remote call of register_service an SSHError becomes
\* ServerClientError("Gateway tunnel is not working"), a RequestError becomes
\* GatewayError, and a GatewayError of the daemon reaches the caller as it is.
C12_RemoteErrorTranslation ==
    /\ reg.outcome = "SSHError" =>
          /\ reg.pc = "failed"
          /\ reg.error = [kind |-> "ServerClientError",
                          msg |-> "Gateway tunnel is not working"]
    /\ reg.outcome = "RequestError" =>
          reg.pc = "failed" /\ reg.error.kind = "GatewayError"
    /\ reg.outcome = "GatewayError" =>
          reg.pc = "failed" /\ reg.error = [kind |-> "GatewayError", msg |-> "daemon"]
    /\ reg.pc = "done" => reg.outcome = "ok"

\* C12 witness: the daemon has answered the remote call with a GatewayError.
C12_Witness ==
    reg.outcome = "GatewayError" /\ reg.remote_calls = 1 /\ reg.pc = "failed"

Unregisters == {"unregister_service", "unregister_replica"}

\* C13: an unregister_service or unregister_replica call whose daemon answers
\* GatewayError returns, so two unregister_service calls in a row for the run
\* both return; a RequestError or SSHError of the call leaves as GatewayError.
C13_UnregisterIdempotent ==
    /\ \A k \in 1..Len(svc.hist) :
          svc.hist[k].op \in Unregisters =>
             /\ svc.hist[k].outcome \in {"ok", "GatewayError"} =>
                   svc.hist[k].result = "done"
             /\ svc.hist[k].outcome \in {"RequestError", "SSHError"} =>
                   svc.hist[k].result = "failed"
    /\ (/\ Len(svc.hist) >= 2
        /\ svc.hist[1].op = "unregister_service" /\ svc.hist[1].outcome = "ok"
        /\ svc.hist[2].op = "unregister_service"
        /\ svc.hist[2].outcome \notin {"none", "RequestError", "SSHError"})
          => svc.hist[2].result = "done"
    /\ svc.pc = "failed" => svc.error.kind = "GatewayError"

\* C13 witness: unregister_service twice in a row; the daemon removed the
\* service in the first and answered GatewayError in the second.
C13_Witness ==
    /\ Len(svc.hist) = 2 /\ svc.pc = "done"
    /\ svc.hist[1].op = "unregister_service" /\ svc.hist[1].outcome = "ok"
    /\ svc.hist[2].op = "unregister_service" /\ svc.hist[2].outcome = "GatewayError"
    /\ svc.hist[2].result = "done"

\* register_service returned, then one unregister_service call was made for the
\* run and returned after the daemon removed the service.
RoundTrip ==
    /\ reg.pc = "done" /\ svc.pc = "done" /\ Len(svc.hist) = 1
    /\ svc.hist[1].op = "unregister_service" /\ svc.hist[1].outcome = "ok"
    /\ svc.hist[1].after

\* C14 as stated: whatever the daemon had registered, register_service and then
\* unregister_service for the run leave the daemon's services as they were.
C14_RoundTripAnyInitial == RoundTrip => daemon.services = daemon0.services

\* C14: register_service and then unregister_service for the run leave the
\* daemon's services as they were when the run's service was not among them
\* before; a service registered before is replaced and then removed.
C14_RoundTrip ==
    RoundTrip =>
        /\ daemon.services = daemon0.services \ {TheRun}
        /\ TheRun \notin daemon0.services => daemon.services = daemon0.services

\* C14 witness: a round trip on a daemon that had another run's service, and
\* not this run's, registered.
C14_Witness ==
    RoundTrip /\ daemon0.services = Runs \ {TheRun} /\ daemon.services = daemon0.services

\* The create_gateway call of caller "c1" has returned a gateway.
Created == cr["c1"].op = "create_gateway" /\ cr["c1"].pc = "done"

\* C15: a create_gateway call that returns has inserted one row, SUBMITTED and
\* without a compute, and has made it the project's default iff the project
\* had no default or the configuration asks for it; otherwise the default is
\* the one the project had.
C15_CreateInsertsOneRow ==
    Created =>
        LET c == cr["c1"] IN
        /\ c.created \notin c.before.rows
        /\ rows = c.before.rows \cup {c.created}
        /\ gw[c.created].status = "submitted"
        /\ ~gw[c.created].gateway_compute /\ ~compute[c.created].active
        /\ gw[c.created].name = c.cfg.name
        /\ default_gateway_id =
              IF c.before.default_gateway_id \notin c.before.rows \/ c.cfg.default
              THEN c.created
              ELSE c.before.default_gateway_id

\* C15 witness: a gateway created with default false on a project that has a
\* default, which is still the default.
C15_Witness ==
    /\ Created /\ ~cr["c1"].cfg.default
    /\ cr["c1"].before.default_gateway_id \in cr["c1"].before.rows
    /\ default_gateway_id = cr["c1"].before.default_gateway_id
    /\ default_gateway_id # cr["c1"].created

\* The configuration names a backend the project does not have, or asks for a
\* private gateway on a backend without private gateways.
Refused(cfg) ==
    \/ cfg.backend \notin ProjectBackends
    \/ ~cfg.public_ip /\ cfg.backend \notin BACKENDS_WITH_PRIVATE_GATEWAY_SUPPORT

\* C16: create_gateway with an unknown backend, or with public_ip false on a
\* backend without private gateways, fails with ServerClientError; no row is
\* inserted, no name is generated and the project's default is unchanged.
C16_CreateRefused ==
    LET c == cr["c1"] IN
    (c.op = "create_gateway" /\ Refused(c.cfg)) =>
        /\ c.pc = "failed" /\ c.error.kind = "ServerClientError"
        /\ rows = c.before.rows
        /\ ~c.generated /\ c.created = None
        /\ default_gateway_id = c.before.default_gateway_id

\* C16 witness: a private gateway asked of aws, without a name, refused.
C16_Witness ==
    /\ cr["c1"].pc = "failed" /\ cr["c1"].cfg.backend = "aws"
    /\ ~cr["c1"].cfg.public_ip /\ cr["c1"].cfg.name = None
    /\ cr["c1"].error.msg = "Private gateways are not supported"

\* No two rows of the project have one name.
NamesUnique == \A g, h \in rows : gw[g].name = gw[h].name => g = h

\* A step in which generate_gateway_name returns: no row of the project has the
\* name it returns.
GeneratedFresh ==
    \A p \in Callers :
        (cr[p].pc = "name" /\ cr'[p].pc = "insert") =>
            /\ cr'[p].generated
            /\ \A g \in rows : gw[g].name # cr'[p].cfg.name

\* C17: in every interleaving of create_gateway calls, with given or generated
\* names, and delete_gateways calls, no two rows of the project share a name,
\* and generate_gateway_name returns a name no row of the project has.
C17_NamesUnique == []NamesUnique /\ [][GeneratedFresh]_vars

\* C17 witness: two callers generated one name; the first row was inserted and
\* the second insert was refused.
C17_Witness ==
    /\ cr["c1"].generated /\ cr["c2"].generated
    /\ cr["c1"].cfg.name = cr["c2"].cfg.name
    /\ cr["c1"].pc = "done" /\ cr["c1"].created \in rows
    /\ cr["c2"].pc = "failed" /\ cr["c2"].error.kind = "IntegrityError"

\* C18: after create_gateway, set_default_gateway and delete_gateways calls at
\* most one row of the project has default true in the view of
\* gateway_model_to_gateway, and each view's default is its
\* configuration.default.
C18_SingleDefault ==
    /\ Cardinality({g \in rows : gateway_model_to_gateway(g).default}) <= 1
    /\ \A g \in rows :
          gateway_model_to_gateway(g).default
            = gateway_model_to_gateway(g).configuration.default

\* C18 witness: two rows created with default true, one of them the default in
\* the view, after a delete_gateways call that deleted a row.
C18_Witness ==
    /\ \E g, h \in rows :
          /\ g # h
          /\ gw[g].configuration.default /\ gw[h].configuration.default
          /\ gateway_model_to_gateway(g).default
          /\ ~gateway_model_to_gateway(h).default
    /\ call["c1"].pc = "done"

\* A step leaves every deleted compute as it is.
DeletedComputeUnchanged ==
    \A g \in Gateways : compute[g].deleted => compute'[g] = compute[g]

\* C19: a deleted GatewayCompute is not active, and no step of delete_gateways,
\* create_gateway or set_default_gateway makes a deleted compute active, clears
\* deleted or changes its ip_address.
C19_DeletedComputeFrozen ==
    /\ [](\A g \in Gateways : compute[g].deleted => ~compute[g].active)
    /\ [][DeletedComputeUnchanged]_vars

\* C19 witness: a gateway was deleted with its compute and a gateway of the
\* same name was created after it; the compute is still the tombstone.
C19_Witness ==
    \E g \in Gateways, h \in rows :
        /\ compute[g].deleted /\ ~compute[g].active /\ compute[g].ip_address = Host(g)
        /\ g \notin rows /\ g # h /\ gw[h].name = gw[g].name

Finished == {"ok", "err"}

\* init_gateways never leaves by a failure of a gateway; the update runs on no
\* connection when SKIP_GATEWAY_UPDATE is set and on every connection of the
\* pool before any configure_gateway when it is not; configure_gateway runs on
\* every connection of the pool, whatever its update returned.
InitPhases ==
    /\ init.pc \in {"idle", "connect", "update", "configure", "done"}
    /\ init.SKIP_GATEWAY_UPDATE => \A g \in Gateways : init.task[g].update = "none"
    /\ \A g \in Gateways :
          init.task[g].configure # "none" =>
             /\ Host(g) \in pool
             /\ ~init.SKIP_GATEWAY_UPDATE => init.task[g].update \in Finished
    /\ init.pc \in {"configure", "done"} =>
          \A g \in Gateways :
             Host(g) \in pool =>
                /\ init.task[g].configure # "none"
                /\ init.SKIP_GATEWAY_UPDATE <=> init.task[g].update = "none"
    /\ init.pc = "done" =>
          \A g \in Gateways : Host(g) \in pool => init.task[g].configure \in Finished

\* C20: in init_gateways a failed connection, update or configuration of one
\* gateway stops no later phase; once started, init_gateways comes to its end
\* with configure_gateway tried on every connection of the pool, one whose
\* update failed included; the update is skipped exactly when
\* SKIP_GATEWAY_UPDATE is set, and a connection's update comes before its
\* configure_gateway.
C20_InitPhasesContinue ==
    /\ []InitPhases
    /\ (init.pc # "idle") ~> (init.pc = "done")
    /\ \A g \in Gateways :
          (init.pc \in {"update", "configure"} /\ Host(g) \in pool)
             ~> (init.task[g].configure \in Finished)

\* C20 witness: init_gateways has returned; one compute could not be connected,
\* the update of another failed and its configure_gateway was still run.
C20_Witness ==
    /\ init.pc = "done" /\ ~init.SKIP_GATEWAY_UPDATE
    /\ \E g, h \in Gateways :
          /\ init.task[g].connect = "err"
          /\ init.task[h].update = "err" /\ init.task[h].configure \in Finished

\* C21: init_gateways starts a pool.add for the computes that are active and
\* not deleted, and for no other; from the empty pool, when it has returned the
\* pool holds the hosts of the computes whose add succeeded, so none of a
\* deleted or inactive compute and every one of a live compute that connected.
C21_InitConnectsLiveComputes ==
    /\ init.pc # "idle" =>
          \A g \in Gateways :
             init.task[g].connect # "none"
               <=> (compute[g].active /\ ~compute[g].deleted)
    /\ init.pc = "done" =>
          /\ pool = {Host(g) : g \in {x \in Gateways : init.task[x].connect = "ok"}}
          /\ \A g \in Gateways :
                (compute[g].deleted \/ ~compute[g].active) => Host(g) \notin pool

\* C21 witness: init_gateways has returned on a project with a deleted compute
\* and a live one; the live one is connected, the deleted one is not.
C21_Witness ==
    /\ init.pc = "done"
    /\ \E g, h \in Gateways :
          /\ compute[g].deleted /\ Host(g) \notin pool
          /\ compute[h].active /\ Host(h) \in pool

\* C22: the pool never stores more than one Connection for a host, however
\* the adds of init_gateways and connect_to_gateway_with_retry and the removes
\* of delete_gateways interleave: an add for a host that has one stores no
\* second one, and a host whose only add failed has none.
C22_OneEntryPerHost ==
    \A g \in Gateways :
       /\ entries[Host(g)] <= 1
       /\ entries[Host(g)] = 1 <=> Host(g) \in pool
       /\ (/\ init.task[g].connect = "err"
           /\ ~(conn.pc = "done" /\ conn.host = Host(g)))
             => Host(g) \notin pool /\ entries[Host(g)] = 0

\* C22 witness: init_gateways and connect_to_gateway_with_retry have both added
\* the same host, which has one entry, and the add of another host has failed.
C22_Witness ==
    \E g, h \in Gateways :
       /\ init.task[h].connect = "ok" /\ conn.pc = "done" /\ conn.host = Host(h)
       /\ entries[Host(h)] = 1
       /\ init.task[g].connect = "err" /\ entries[Host(g)] = 0

\* What a step leaves alone of gateway g: its row, its attributes and its
\* compute, its pool entry if it has one, its absence from the registry, and
\* its having no termination task.
LeftAlone(g) ==
    /\ gw'[g] = gw[g]
    /\ compute'[g] = compute[g]
    /\ g \in rows => g \in rows'
    /\ Host(g) \in pool => Host(g) \in pool'
    /\ g \notin PROCESSING_GATEWAYS_IDS'
    /\ call'["c1"].task[g] = "none"

\* C23: delete_gateways selects no gateway of the managed-default backend and
\* none whose name is not in the requested list, and a gateway it has not
\* selected gets no termination task (so no wait_to_lock and no
\* terminate_instance), stays out of the registry, keeps its pool entry and
\* keeps its row and compute as they were.
C23_UnselectedUntouched ==
    [][/\ \A names \in SUBSET Gateways :
             delete_gateways("c1", names) =>
                \A g \in Gateways :
                   (gw[g].backend = "dstack" \/ gw[g].name \notin names)
                     => call'["c1"].task[g] = "none"
       /\ \A g \in Gateways :
             (call["c1"].pc # "idle" /\ call["c1"].task[g] = "none")
               => LeftAlone(g)]_vars

\* C23 witness: the call has returned having deleted one gateway, and a
\* managed-default gateway with a compute still has its row, its live compute
\* and its pool entry.
C23_Witness ==
    /\ call["c1"].pc = "done"
    /\ call["c1"].deleted # {}
    /\ \E g \in rows :
          /\ gw[g].backend = "dstack" /\ HasCompute(g)
          /\ Flags(g) = Live
          /\ Host(g) \in pool
          /\ g \notin PROCESSING_GATEWAYS_IDS

\* C24: set_gateway_wildcard_domain raises ResourceNotExistsError for a name
\* no gateway has and ServerClientError for a managed-default gateway, and a
\* call that raises has changed no wildcard_domain; otherwise the update sets
\* the wildcard_domain of the named gateway to the given value; no step of the
\* call changes the wildcard_domain of another gateway, an attribute of any
\* gateway, a compute, the rows or the project's default.
C24_SetWildcardDomain ==
    [][/\ \A name \in Names, d \in WildcardDomains :
             set_gateway_wildcard_domain(name, d) =>
                /\ GatewaysNamed(name) = {}
                     => dom'.pc = "raised" /\ dom'.error = "ResourceNotExistsError"
                /\ (\E g \in GatewaysNamed(name) : gw[g].backend = "dstack")
                     => dom'.pc = "raised" /\ dom'.error = "ServerClientError"
                /\ (\E g \in GatewaysNamed(name) : gw[g].backend # "dstack")
                     => dom'.pc = "update"
       /\ dom'.pc = "raised" => wildcard_domain' = wildcard_domain
       /\ dom.pc = "update" =>
             \A g \in GatewaysNamed(dom.name) :
                wildcard_domain'[g] = dom.wildcard_domain
       /\ \A g \in Gateways :
             wildcard_domain'[g] # wildcard_domain[g] =>
                /\ dom.pc = "update"
                /\ g \in GatewaysNamed(dom.name)
                /\ gw[g].backend # "dstack"
       /\ UNCHANGED <<gw, rows, compute, default_gateway_id>>]_vars

\* C24 witness: the call has returned having given the named gateway a domain
\* it did not have, next to a managed-default gateway that keeps its own.
C24_Witness ==
    /\ dom.pc = "done"
    /\ \E g, h \in rows :
          /\ gw[g].name = dom.name
          /\ dom.wildcard_domain = Str(<<"*", ".", "a">>)
          /\ wildcard_domain[g] = dom.wildcard_domain
          /\ dom.result = dom.wildcard_domain
          /\ gw[h].backend = "dstack"
          /\ wildcard_domain[h] = Str(<<"b">>)

\* A string without its literal "*." prefix, if it has one.
StripLiteralPrefix(s) ==
    IF Len(s) >= 2 /\ s[1] = "*" /\ s[2] = "." THEN SubSeq(s, 3, Len(s)) ELSE s

\* C25: a service_spec written by register_service has for its domain the
\* gateway's wildcard_domain without a literal leading "*." and nothing else
\* removed, and that domain is not empty.
C25_LiteralPrefixNonEmptyDomain ==
    reg.run.service_spec.set =>
       /\ ~reg.inp.wildcard_domain.none
       /\ reg.run.service_spec.domain = StripLiteralPrefix(reg.inp.wildcard_domain.s)
       /\ reg.run.service_spec.domain # <<>>

\* C26: while the remote call of register_service is in flight, the Connection
\* it fetched from the pool has not been closed.
C26_InFlightConnectionOpen ==
    reg.pc = "call" => Host(reg.inp.default_gateway) \notin closed

\* C27: while a delete_gateways call has the tombstoning of a compute or the
\* deletion of a row still to commit, the gateway's id is in the registry and
\* no other call holds it.
C27_IdHeldUntilCommitted ==
    \A p \in Callers : \A g \in Gateways :
       (call[p].pc = "commit" /\ g \in call[p].deleted \cup call[p].tombstoned) =>
          /\ g \in PROCESSING_GATEWAYS_IDS
          /\ \A q \in Callers \ {p} : ~Holds(q, g)

====
